---- MODULE Spec2Model ----
(***************************************************************************)
(* scan2webdav: the file-intake pipeline of scan2webdav.go.                *)
(*                                                                         *)
(* main() resolves the URL template, checks the watched path, walks the    *)
(* watched directory once (processDir, one synchronous processFile per     *)
(* non-directory entry), subscribes to close-write / moved-to events and   *)
(* then starts one goroutine running processFile per received event.       *)
(*                                                                         *)
(* The process is one main goroutine (mainPc) plus one goroutine per       *)
(* watcher-launched job; every job is a record of `jobs` with its own      *)
(* program counter.  log.Fatal ends the process with os.Exit (no deferred  *)
(* call runs); a panic runs the deferred calls of its goroutine and then   *)
(* ends the process.                                                       *)
(***************************************************************************)
EXTENDS Integers, Sequences, FiniteSets, TLC

\* ---------------------------------------------------------------- bounds
\* Number of files the environment writes / moves into the directory.
MaxArrivals == 2
\* Number of distinct names ioutil.TempDir can draw for "ocrmypdf-*".
NumTempNames == 2
\* Number of files below the watched directory when the process starts.
MaxEntries == 2

\* Number of times the environment rewrites one file (RewriteSpec).
MaxRewrites == 3

\* ------------------------------------------------------ program constants
\* c := make(chan notify.EventInfo, 1)
ChanCap == 1

\* ------------------------------------------------------------ the world
\* File names that may exist at the top level of the watched directory.
Names == {"a", "z"}
\* The one subdirectory the watched directory may contain, and the file
\* names that may exist inside it.
SubDir == "m"
SubNames == {"z"}
\* The file the environment of RewriteSpec keeps rewriting.
RewrittenName == "a"
\* Lexical order of directory entries (filepath.Walk sorts the names).
NameOrder == <<"a", "m", "z">>
\* HTTP status codes the remote store may answer with.
Statuses == {199, 200, 299, 300}
TempNames == 1..NumTempNames

VARIABLES
    cfg,        \* Config after readEnv: [url, path, args]
    mainPc,     \* position of main()
    proc,       \* "running", or why the process ended
    files,      \* names of the files at the top level of the watched directory
    sub,        \* names of the files inside SubDir (SubDir exists iff non-empty)
    walk,       \* filepath.Walk: entries still to visit, in order
    watching,   \* notify.Watch has succeeded
    chan,       \* the buffered event channel c
    jobs,       \* every processFile call so far, in launch order
    tmp,        \* /tmp: temp name -> [owner, file]
    received,   \* paths of the events the dispatcher loop has received
    arrivals,   \* number of files written into the directory so far
    dropped     \* number of events the watcher could not queue (channel full)

vars == <<cfg, mainPc, proc, files, sub, walk, watching, chan, jobs, tmp,
          received, arrivals, dropped>>

Alive == proc = "running"

\* (a variant taking 300 for a success)
IsSuccess_Upto300(s) == s >= 200 /\ s <= 300

\* res.StatusCode >= 200 && res.StatusCode < 300
IsSuccess(s) == s >= 200 /\ s < 300

\* filepath.Base of a path kept as a sequence of names
Base(path) == path[Len(path)]

\* Does the path name an existing file?  (files inside SubDir are never touched)
FileExists(path) ==
    \/ Len(path) = 1 /\ path[1] \in files
    \/ Len(path) = 2 /\ path[1] = SubDir /\ path[2] \in sub

\* readDirNames: the sorted names of a set of entries
SortedNames(S) == SelectSeq(NameOrder, LAMBDA n : n \in S)

NoDir == [owner |-> 0, file |-> "none"]

\* cfg.Watcher.Path + "/" + info.Name(): the path processDir hands to processFile
ScanJobPath(entry) == <<Base(entry)>>

\* (a variant for a scan that starts its jobs and does not wait for them)
ScanIdle_NoWait == TRUE

\* The scan is synchronous: the walk goes on only when processFile has returned.
ScanIdle == IF Len(jobs) = 0 THEN TRUE ELSE jobs[Len(jobs)].pc = "done"

NewJob(path, entry, wait) ==
    [path |-> path, entry |-> entry, wait |-> wait,
     pc |-> IF wait THEN "settling" ELSE "staging",
     settled |-> FALSE, tempDir |-> 0, ocr |-> "none", status |-> 0,
     result |-> "none", removedSrc |-> FALSE, reappeared |-> FALSE,
     err |-> "none", wrote |-> FALSE]

Init ==
    /\ cfg \in [url : {"ok", "parseError", "execError"},
                path : {"dir", "missing", "file"},
                args : {"ok", "lexError"}]
    /\ mainPc = "parse"
    /\ proc = "running"
    /\ files \in SUBSET Names
    /\ sub \in SUBSET SubNames
    /\ Cardinality(files) + Cardinality(sub) <= MaxEntries
    /\ cfg.path # "dir" => files = {} /\ sub = {}
    /\ walk = <<>>
    /\ watching = FALSE
    /\ chan = <<>>
    /\ jobs = <<>>
    /\ tmp = [d \in TempNames |-> NoDir]
    /\ received = <<>>
    /\ arrivals = 0
    /\ dropped = 0

\* ------------------------------------------------------------- main()
\* template.New("url").Parse(cfg.Server.Url)
ParseTemplate ==
    /\ Alive /\ mainPc = "parse"
    /\ IF cfg.url = "parseError"
       THEN proc' = "fatal-template" /\ UNCHANGED mainPc
       ELSE mainPc' = "execute" /\ UNCHANGED proc
    /\ UNCHANGED <<cfg, dropped, files, sub, walk, watching, chan, jobs, tmp, received, arrivals>>

\* t.Execute(&tpl, cfg.Server)
ExecuteTemplate ==
    /\ Alive /\ mainPc = "execute"
    /\ IF cfg.url = "execError"
       THEN proc' = "fatal-template" /\ UNCHANGED mainPc
       ELSE mainPc' = "stat" /\ UNCHANGED proc
    /\ UNCHANGED <<cfg, dropped, files, sub, walk, watching, chan, jobs, tmp, received, arrivals>>

\* (a variant that checks the error of os.Stat and not IsDir)
StatPath_NoIsDir ==
    /\ Alive /\ mainPc = "stat"
    /\ IF cfg.path = "missing"
       THEN proc' = "fatal-watchpath" /\ UNCHANGED <<mainPc, walk>>
       ELSE mainPc' = "scan" /\ walk' = << <<>> >> /\ UNCHANGED proc
    /\ UNCHANGED <<cfg, dropped, files, sub, watching, chan, jobs, tmp, received, arrivals>>

\* os.Stat(cfg.Watcher.Path), fileInfo.IsDir(), then processDir starts the walk
StatPath ==
    /\ Alive /\ mainPc = "stat"
    /\ IF cfg.path # "dir"
       THEN proc' = "fatal-watchpath" /\ UNCHANGED <<mainPc, walk>>
       ELSE mainPc' = "scan" /\ walk' = << <<>> >> /\ UNCHANGED proc
    /\ UNCHANGED <<cfg, dropped, files, sub, watching, chan, jobs, tmp, received, arrivals>>

\* ------------------------------------------------------- processDir()
\* filepath.Walk reaches a directory: readDirNames, then walkFn (IsDir: nothing).
WalkDir ==
    /\ Alive /\ mainPc = "scan" /\ ScanIdle /\ walk # <<>>
    /\ LET e == Head(walk)
           names == IF e = <<>>
                    THEN SortedNames(files \cup (IF sub # {} THEN {SubDir} ELSE {}))
                    ELSE SortedNames(sub)
           children == [i \in 1..Len(names) |-> Append(e, names[i])]
       IN /\ e \in {<<>>, <<SubDir>>}
          /\ walk' = children \o Tail(walk)
    /\ UNCHANGED <<cfg, dropped, mainPc, proc, files, sub, watching, chan, jobs, tmp, received, arrivals>>

\* filepath.Walk reaches a file whose lstat succeeds: walkFn calls processFile.
WalkFile ==
    /\ Alive /\ mainPc = "scan" /\ ScanIdle /\ walk # <<>>
    /\ LET e == Head(walk)
       IN /\ e \notin {<<>>, <<SubDir>>}
          /\ FileExists(e)
          /\ jobs' = Append(jobs, NewJob(ScanJobPath(e), e, FALSE))
    /\ walk' = Tail(walk)
    /\ UNCHANGED <<cfg, dropped, mainPc, proc, files, sub, watching, chan, tmp, received, arrivals>>

\* lstat of a listed name fails: walkFn(path, nil, err) logs and then calls
\* info.IsDir() on the nil FileInfo, which panics in the main goroutine.
WalkMissing ==
    /\ Alive /\ mainPc = "scan" /\ ScanIdle /\ walk # <<>>
    /\ LET e == Head(walk)
       IN /\ e \notin {<<>>, <<SubDir>>}
          /\ ~FileExists(e)
    /\ proc' = "panic-walk"
    /\ UNCHANGED <<cfg, dropped, mainPc, files, sub, walk, watching, chan, jobs, tmp, received, arrivals>>

\* (a variant in which main goes on while the last scan job is still running)
WalkDone_NoWait ==
    /\ Alive /\ mainPc = "scan" /\ walk = <<>>
    /\ mainPc' = "watch"
    /\ UNCHANGED <<cfg, dropped, proc, files, sub, walk, watching, chan, jobs, tmp, received, arrivals>>

\* filepath.Walk returns; main goes on to make the channel.
WalkDone ==
    /\ Alive /\ mainPc = "scan" /\ ScanIdle /\ walk = <<>>
    /\ mainPc' = "watch"
    /\ UNCHANGED <<cfg, dropped, proc, files, sub, walk, watching, chan, jobs, tmp, received, arrivals>>

\* notify.Watch(cfg.Watcher.Path, c, notify.InCloseWrite, notify.InMovedTo)
Watch ==
    /\ Alive /\ mainPc = "watch"
    /\ \E ok \in BOOLEAN :
         IF ok
         THEN watching' = TRUE /\ mainPc' = "loop" /\ UNCHANGED proc
         ELSE proc' = "fatal-watch" /\ UNCHANGED <<watching, mainPc>>
    /\ UNCHANGED <<cfg, dropped, files, sub, walk, chan, jobs, tmp, received, arrivals>>

\* (a variant that starts the job without the settle-wait)
Dispatch_NoWait ==
    /\ Alive /\ mainPc = "loop" /\ chan # <<>>
    /\ received' = Append(received, Head(chan))
    /\ chan' = Tail(chan)
    /\ jobs' = Append(jobs, NewJob(Head(chan), Head(chan), FALSE))
    /\ UNCHANGED <<cfg, dropped, mainPc, proc, files, sub, walk, watching, tmp, arrivals>>

\* (a variant that calls processFile in the loop itself, without go)
Dispatch_Sync ==
    /\ Alive /\ mainPc = "loop" /\ chan # <<>>
    /\ \A j \in DOMAIN jobs : jobs[j].pc = "done"
    /\ received' = Append(received, Head(chan))
    /\ chan' = Tail(chan)
    /\ jobs' = Append(jobs, NewJob(Head(chan), Head(chan), TRUE))
    /\ UNCHANGED <<cfg, dropped, mainPc, proc, files, sub, walk, watching, tmp, arrivals>>

\* for { select { case ei := <-c: go processFile(cfg, ei.Path(), true) } }
Dispatch ==
    /\ Alive /\ mainPc = "loop" /\ chan # <<>>
    /\ received' = Append(received, Head(chan))
    /\ chan' = Tail(chan)
    /\ jobs' = Append(jobs, NewJob(Head(chan), Head(chan), TRUE))
    /\ UNCHANGED <<cfg, dropped, mainPc, proc, files, sub, walk, watching, tmp, arrivals>>

\* ------------------------------------------------------ the environment
\* (a variant in which a full channel keeps the newest event)
Arrive_KeepNewest(n) ==
    /\ cfg.path = "dir"
    /\ arrivals < MaxArrivals
    /\ arrivals' = arrivals + 1
    /\ files' = files \cup {n}
    /\ chan' = IF Alive /\ watching
               THEN (IF Len(chan) < ChanCap THEN Append(chan, <<n>>) ELSE << <<n>> >>)
               ELSE chan
    /\ dropped' = IF Alive /\ watching /\ Len(chan) >= ChanCap
                  THEN dropped + 1 ELSE dropped
    /\ jobs' = [k \in 1..Len(jobs) |->
                 IF jobs[k].path = <<n>> /\ jobs[k].removedSrc
                 THEN [jobs[k] EXCEPT !.reappeared = TRUE] ELSE jobs[k]]
    /\ UNCHANGED <<cfg, mainPc, proc, sub, walk, watching, tmp, received>>

\* A file is completely written or moved into the watched directory.  The
\* notify library sends the event without blocking: it is dropped when the
\* channel is full, and nobody sees it when no watch is set.
Arrive(n) ==
    /\ cfg.path = "dir"
    /\ arrivals < MaxArrivals
    /\ arrivals' = arrivals + 1
    /\ files' = files \cup {n}
    /\ chan' = IF Alive /\ watching /\ Len(chan) < ChanCap
               THEN Append(chan, <<n>>) ELSE chan
    /\ dropped' = IF Alive /\ watching /\ Len(chan) >= ChanCap
                  THEN dropped + 1 ELSE dropped
    /\ jobs' = [k \in 1..Len(jobs) |->
                 IF jobs[k].path = <<n>> /\ jobs[k].removedSrc
                 THEN [jobs[k] EXCEPT !.reappeared = TRUE] ELSE jobs[k]]
    /\ UNCHANGED <<cfg, mainPc, proc, sub, walk, watching, tmp, received>>

\* ------------------------------------------------------- processFile()
Running(j) == j \in DOMAIN jobs /\ Alive

\* os.RemoveAll(tempDir): removes whatever directory has that name now
RemoveAll(d) == [tmp EXCEPT ![d] = NoDir]

\* if wait { time.Sleep(5 * time.Second) }
Settle(j) ==
    /\ Running(j) /\ jobs[j].pc = "settling"
    /\ jobs' = [jobs EXCEPT ![j].settled = TRUE, ![j].pc = "staging"]
    /\ UNCHANGED <<cfg, dropped, mainPc, proc, files, sub, walk, watching, chan, tmp, received, arrivals>>

\* ioutil.TempDir("/tmp", "ocrmypdf-*") returns a name no directory has now;
\* defer os.RemoveAll(tempDir) is registered.
StageOk(j) ==
    /\ Running(j) /\ jobs[j].pc = "staging"
    /\ \E d \in TempNames :
         /\ tmp[d].owner = 0
         /\ tmp' = [tmp EXCEPT ![d] = [owner |-> j, file |-> "none"]]
         /\ jobs' = [jobs EXCEPT ![j].tempDir = d, ![j].pc = "transforming"]
    /\ UNCHANGED <<cfg, dropped, mainPc, proc, files, sub, walk, watching, chan, received, arrivals>>

\* ioutil.TempDir fails: log.Fatal(err)
StageFail(j) ==
    /\ Running(j) /\ jobs[j].pc = "staging"
    /\ proc' = "fatal-tempdir"
    /\ jobs' = [jobs EXCEPT ![j].pc = "fatal"]
    /\ UNCHANGED <<cfg, dropped, mainPc, files, sub, walk, watching, chan, tmp, received, arrivals>>

\* (a variant that goes on to the upload whatever CombinedOutput returned)
Transform_IgnoreErr(j) ==
    /\ Running(j) /\ jobs[j].pc = "transforming"
    /\ \E out \in {"fail", "ok", "noOutput"} :
         LET d == jobs[j].tempDir IN
         /\ jobs' = [jobs EXCEPT ![j].ocr = IF out = "fail" THEN "fail" ELSE "ok",
                                 ![j].pc = "uploading",
                                 ![j].wrote = (out = "ok" /\ tmp[d].owner # 0)]
         /\ tmp' = IF out = "ok" /\ tmp[d].owner # 0
                   THEN [tmp EXCEPT ![d].file = Base(jobs[j].path)]
                   ELSE tmp
    /\ UNCHANGED <<cfg, dropped, mainPc, proc, files, sub, walk, watching, chan, received, arrivals>>

\* shlex.Split(cfg.Ocr.Args): an error is logged and nothing else, the words
\* lexed so far are used.  exec.Command(cfg.Ocr.Exec, args...).CombinedOutput():
\* the external program fails, or exits 0 having written tempFile, or exits 0
\* without writing it.
Transform(j) ==
    /\ Running(j) /\ jobs[j].pc = "transforming"
    /\ \E out \in {"fail", "ok", "noOutput"} :
         LET d == jobs[j].tempDir IN
         /\ jobs' = IF out = "fail"
                    THEN [jobs EXCEPT ![j].ocr = "fail", ![j].result = "Failed",
                                      ![j].pc = "cleanup"]
                    ELSE [jobs EXCEPT ![j].ocr = "ok", ![j].pc = "uploading",
                                      ![j].wrote = (out = "ok" /\ tmp[d].owner # 0)]
         /\ tmp' = IF out = "ok" /\ tmp[d].owner # 0
                   THEN [tmp EXCEPT ![d].file = Base(jobs[j].path)]
                   ELSE tmp
    /\ UNCHANGED <<cfg, dropped, mainPc, proc, files, sub, walk, watching, chan, received, arrivals>>

\* The ways uploadFile can end without returning a response.
UploadErrors == {"requestError", "doError", "bodyError"}

\* (a variant that returns from the job as Failed when client.Do fails)
Upload_ReturnOnDoError(j) ==
    /\ Running(j) /\ jobs[j].pc = "uploading"
    /\ LET d == jobs[j].tempDir
           opened == tmp[d].owner # 0 /\ tmp[d].file = Base(jobs[j].path)
       IN IF ~opened
          THEN \* os.Open fails: log.Fatalf("Opening file: %s", err)
               /\ proc' = "fatal-open"
               /\ jobs' = [jobs EXCEPT ![j].pc = "fatal"]
          ELSE \E r \in UploadErrors \cup {"response"} :
               CASE r = "requestError" ->       \* http.NewRequest: log.Fatal(err)
                      /\ proc' = "fatal-request"
                      /\ jobs' = [jobs EXCEPT ![j].err = r, ![j].pc = "fatal"]
                 [] r = "doError" ->
                      /\ proc' = proc
                      /\ jobs' = [jobs EXCEPT ![j].err = r, ![j].result = "Failed",
                                              ![j].pc = "cleanup"]
                 [] r = "bodyError" ->          \* non-2xx, io.ReadAll: log.Fatal(err)
                      /\ proc' = "fatal-body"
                      /\ jobs' = [jobs EXCEPT ![j].err = r, ![j].pc = "fatal"]
                 [] OTHER ->                    \* return (res)
                      /\ proc' = proc
                      /\ \E s \in Statuses :
                           jobs' = [jobs EXCEPT ![j].status = s, ![j].pc = "uploaded"]
    /\ UNCHANGED <<cfg, dropped, mainPc, files, sub, walk, watching, chan, tmp, received, arrivals>>

\* uploadFile(tempFile, ...): os.Open, http.NewRequest, client.Do, io.ReadAll
Upload(j) ==
    /\ Running(j) /\ jobs[j].pc = "uploading"
    /\ LET d == jobs[j].tempDir
           opened == tmp[d].owner # 0 /\ tmp[d].file = Base(jobs[j].path)
       IN IF ~opened
          THEN \* os.Open fails: log.Fatalf("Opening file: %s", err)
               /\ proc' = "fatal-open"
               /\ jobs' = [jobs EXCEPT ![j].pc = "fatal"]
          ELSE \E r \in UploadErrors \cup {"response"} :
               CASE r = "requestError" ->       \* http.NewRequest: log.Fatal(err)
                      /\ proc' = "fatal-request"
                      /\ jobs' = [jobs EXCEPT ![j].err = r, ![j].pc = "fatal"]
                 [] r = "doError" ->            \* res is nil: res.Body panics
                      /\ proc' = proc
                      /\ jobs' = [jobs EXCEPT ![j].err = r, ![j].pc = "panicking"]
                 [] r = "bodyError" ->          \* non-2xx, io.ReadAll: log.Fatal(err)
                      /\ proc' = "fatal-body"
                      /\ jobs' = [jobs EXCEPT ![j].err = r, ![j].pc = "fatal"]
                 [] OTHER ->                    \* return (res)
                      /\ proc' = proc
                      /\ \E s \in Statuses :
                           jobs' = [jobs EXCEPT ![j].status = s, ![j].pc = "uploaded"]
    /\ UNCHANGED <<cfg, dropped, mainPc, files, sub, walk, watching, chan, tmp, received, arrivals>>

\* (a variant that logs "Removing input" and leaves the file)
HandleResponse_KeepInput(j) ==
    /\ Running(j) /\ jobs[j].pc = "uploaded"
    /\ files' = files
    /\ jobs' = IF IsSuccess(jobs[j].status)
               THEN [jobs EXCEPT ![j].removedSrc = TRUE, ![j].result = "Succeeded",
                                 ![j].pc = "cleanup"]
               ELSE [jobs EXCEPT ![j].result = "Failed", ![j].pc = "cleanup"]
    /\ UNCHANGED <<cfg, dropped, mainPc, proc, sub, walk, watching, chan, tmp, received, arrivals>>

\* if res.StatusCode >= 200 && res.StatusCode < 300 { os.Remove(inFile) } else { log body }
HandleResponse(j) ==
    /\ Running(j) /\ jobs[j].pc = "uploaded"
    /\ IF IsSuccess(jobs[j].status)
       THEN /\ files' = files \ {Base(jobs[j].path)}
            /\ jobs' = [jobs EXCEPT ![j].removedSrc = TRUE, ![j].result = "Succeeded",
                                    ![j].pc = "cleanup"]
       ELSE /\ files' = files
            /\ jobs' = [jobs EXCEPT ![j].result = "Failed", ![j].pc = "cleanup"]
    /\ UNCHANGED <<cfg, dropped, mainPc, proc, sub, walk, watching, chan, tmp, received, arrivals>>

\* log.Println("Removing temp direcotory:", tempDir); os.RemoveAll(tempDir)
Cleanup(j) ==
    /\ Running(j) /\ jobs[j].pc = "cleanup"
    /\ tmp' = RemoveAll(jobs[j].tempDir)
    /\ jobs' = [jobs EXCEPT ![j].pc = "returning"]
    /\ UNCHANGED <<cfg, dropped, mainPc, proc, files, sub, walk, watching, chan, received, arrivals>>

\* processFile returns: the deferred os.RemoveAll(tempDir) runs and the locals
\* (tempDir, res) are gone with the frame; what stays of the job is how it ended
DeferredRemove(j) ==
    /\ Running(j) /\ jobs[j].pc = "returning"
    /\ tmp' = RemoveAll(jobs[j].tempDir)
    /\ jobs' = [jobs EXCEPT ![j].pc = "done", ![j].tempDir = 0, ![j].status = 0,
                            ![j].removedSrc = FALSE, ![j].reappeared = FALSE]
    /\ UNCHANGED <<cfg, dropped, mainPc, proc, files, sub, walk, watching, chan, received, arrivals>>

\* The nil dereference in uploadFile unwinds the goroutine: the deferred
\* os.RemoveAll(tempDir) runs, then the runtime ends the process.
PanicUnwind(j) ==
    /\ Running(j) /\ jobs[j].pc = "panicking"
    /\ tmp' = RemoveAll(jobs[j].tempDir)
    /\ jobs' = [jobs EXCEPT ![j].pc = "panicked"]
    /\ proc' = "panic-upload"
    /\ UNCHANGED <<cfg, dropped, mainPc, files, sub, walk, watching, chan, received, arrivals>>

JobStep(j) ==
    \/ Settle(j)
    \/ StageOk(j)
    \/ StageFail(j)
    \/ Transform(j)
    \/ Upload(j)
    \/ HandleResponse(j)
    \/ Cleanup(j)
    \/ DeferredRemove(j)
    \/ PanicUnwind(j)

MainStep ==
    \/ ParseTemplate
    \/ ExecuteTemplate
    \/ StatPath
    \/ WalkDir
    \/ WalkFile
    \/ WalkMissing
    \/ WalkDone
    \/ Watch
    \/ Dispatch

Next ==
    \/ MainStep
    \/ \E j \in DOMAIN jobs : JobStep(j)
    \/ \E n \in Names : Arrive(n)

Spec == Init /\ [][Next]_vars

\* The environment writes one and the same file again and again, as a scanner
\* does that reuses a file name.
Rewrite ==
    /\ cfg.path = "dir"
    /\ arrivals < MaxRewrites
    /\ arrivals' = arrivals + 1
    /\ files' = files \cup {RewrittenName}
    /\ chan' = IF Alive /\ watching /\ Len(chan) < ChanCap
               THEN Append(chan, <<RewrittenName>>) ELSE chan
    /\ dropped' = IF Alive /\ watching /\ Len(chan) >= ChanCap
                  THEN dropped + 1 ELSE dropped
    /\ jobs' = [k \in 1..Len(jobs) |->
                 IF jobs[k].path = <<RewrittenName>> /\ jobs[k].removedSrc
                 THEN [jobs[k] EXCEPT !.reappeared = TRUE] ELSE jobs[k]]
    /\ UNCHANGED <<cfg, mainPc, proc, sub, walk, watching, tmp, received>>

NextRewrite ==
    \/ MainStep
    \/ \E j \in DOMAIN jobs : JobStep(j)
    \/ Rewrite

\* A well-configured start on a directory that holds z and m/z.
InitRewrite ==
    /\ Init
    /\ cfg = [url |-> "ok", path |-> "dir", args |-> "ok"]
    /\ files = {"z"} /\ sub = {"z"}

\* The program in an environment that only rewrites one file.
RewriteSpec == InitRewrite /\ [][NextRewrite]_vars

\* Most jobs a run can launch: one per entry of the scan, one per event.
MaxJobs == MaxEntries + MaxArrivals

\* The Go scheduler runs every runnable goroutine, the external program
\* exits and the remote store answers.
FairSpec ==
    /\ Spec
    /\ WF_vars(MainStep)
    /\ \A j \in 1..MaxJobs : WF_vars(JobStep(j))

\* ------------------------------------------------------------ properties
Succeeded2xx(s) == s \in 200..299
Ended(j) == jobs[j].pc \in {"done", "fatal", "panicked"}
Holding(j) == jobs[j].pc \in {"transforming", "uploading", "uploaded", "cleanup"}

\* C1: every step that deletes a file of the watched directory is the
\* response-handling step of a job whose own upload returned a status in
\* 200..299 and whose source file it is; a job whose upload returned another
\* status has never run os.Remove.
C1_RemoveOnlyAfter2xx ==
    [][/\ \A n \in files \ files' :
             \E j \in DOMAIN jobs :
                 /\ jobs[j].path = <<n>>
                 /\ jobs[j].pc = "uploaded" /\ jobs'[j].pc = "cleanup"
                 /\ Succeeded2xx(jobs[j].status)
       /\ \A j \in DOMAIN jobs' :
             jobs'[j].removedSrc => Succeeded2xx(jobs'[j].status)]_vars

\* C1 happens: of two watcher-launched jobs one has deleted its source after a
\* 2xx, the other is returning from a non-2xx status with its source in place.
C1_Witness ==
    \E j, k \in DOMAIN jobs :
        /\ jobs[j].wait /\ jobs[k].wait
        /\ jobs[j].removedSrc /\ Succeeded2xx(jobs[j].status)
        /\ jobs[k].pc = "returning" /\ jobs[k].status \in {199, 300}
        /\ ~jobs[k].removedSrc /\ FileExists(jobs[k].path)

C4_TempDirAlwaysRemoved ==
    /\ \A j \in DOMAIN jobs :
          /\ Holding(j) => tmp[jobs[j].tempDir].owner = j
          /\ Ended(j) => \A d \in TempNames : tmp[d].owner # j
    /\ ~Alive => \A d \in TempNames : tmp[d].owner = 0

\* C5 as stated: no two jobs hold the same temporary directory, and a
\* directory is written or removed only by a step of the job that created it.
C5_TempDirPrivate ==
    [][/\ \A j, k \in DOMAIN jobs' :
             (j # k /\ Holding(j)' /\ Holding(k)') =>
                 jobs'[j].tempDir # jobs'[k].tempDir
       /\ \A d \in TempNames :
             (tmp[d].owner # 0 /\ tmp'[d] # tmp[d]) =>
                 jobs'[tmp[d].owner].pc # jobs[tmp[d].owner].pc]_vars

\* C6 as stated: the scan runs processFile once per non-directory entry, on
\* that entry's own path and without the settle-wait; no path is processed
\* twice by the scan.
C6_ScanOncePerEntry ==
    \A j \in DOMAIN jobs :
        ~jobs[j].wait =>
            /\ jobs[j].path = jobs[j].entry
            /\ ~jobs[j].settled
            /\ \A k \in DOMAIN jobs :
                  (k # j /\ ~jobs[k].wait) =>
                      /\ jobs[k].entry # jobs[j].entry
                      /\ jobs[k].path # jobs[j].path

\* Job j has been launched by the dispatcher loop.
Launched(j) == IF j \in DOMAIN jobs THEN jobs[j].wait ELSE FALSE
\* Job j has reached a terminal state of the File Job state machine.
Terminal(j) ==
    IF j \in DOMAIN jobs
    THEN jobs[j].pc = "done" /\ jobs[j].result \in {"Succeeded", "Failed"}
    ELSE FALSE

\* The watcher-launched jobs, in launch order.
WatcherJobs == SelectSeq(jobs, LAMBDA r : r.wait)

\* C7: the watcher-launched jobs are, one for one and in order, the events the
\* dispatcher loop has received, each on its event's path; and every such job
\* that has got past Settling has done the settle-wait.
C7_OneSettledJobPerEvent ==
    /\ Len(WatcherJobs) = Len(received)
    /\ \A i \in 1..Len(received) : WatcherJobs[i].path = received[i]
    /\ \A j \in DOMAIN jobs :
          (jobs[j].wait /\ jobs[j].pc # "settling") => jobs[j].settled

\* C7 happens: two events were received and a job launched for the second is
\* transforming after its settle-wait.
C7_Witness ==
    /\ Len(received) = 2
    /\ \E j \in DOMAIN jobs :
          /\ jobs[j].wait /\ jobs[j].settled /\ jobs[j].pc = "transforming"
          /\ jobs[j].path = received[2]

\* C8 as stated: once startup has succeeded, the failure of a job on its own
\* file (no temp directory, no OCR output to open) never ends the process.
C8_PerFileErrorsNotFatal ==
    \A j \in DOMAIN jobs :
        jobs[j].pc = "fatal" => proc \notin {"fatal-tempdir", "fatal-open"}

\* The configuration main() refuses.
BadConfig == cfg.url # "ok" \/ cfg.path # "dir"

\* C9: with a URL template that does not parse or execute, or a watched path
\* that is missing or no directory, main never gets to the scan: no walk, no
\* job, no file removed, no watch, no event received.
C9_FailFast ==
    BadConfig =>
        /\ mainPc \in {"parse", "execute", "stat"}
        /\ walk = <<>> /\ Len(jobs) = 0
        /\ ~watching /\ chan = <<>> /\ received = <<>>
        /\ (mainPc = "stat" /\ ~Alive) => cfg.url = "ok"

\* C9 happens: the process has ended on a watched path that is a regular file.
C9_Witness ==
    /\ cfg.path = "file" /\ cfg.url = "ok"
    /\ proc = "fatal-watchpath" /\ mainPc = "stat"

\* C10 as stated: under fair scheduling every watcher-launched job eventually
\* reaches a terminal state, Succeeded or Failed.
C10_AllJobsTerminate ==
    \A j \in 1..MaxJobs :
        [](Launched(j) => <>Terminal(j))

\* The upload request of job j failed before a response was obtained.
TransportError(j) == jobs[j].err \in {"requestError", "doError"}

\* Job j is between its launch and its end.
InProgress(j) ==
    jobs[j].pc \in {"settling", "staging", "transforming", "uploading",
                    "uploaded", "cleanup", "returning"}

\* C11: a job whose upload request failed at the transport level (the request
\* could not be built, or client.Do returned an error) never goes on to its
\* response handling, its cleanup or its return: it is the job the process
\* ends on, at once through log.Fatal or as soon as its panic has unwound.
C11_TransportErrorEndsProcess ==
    \A j \in DOMAIN jobs :
        TransportError(j) =>
            /\ jobs[j].pc \in {"fatal", "panicking", "panicked"}
            /\ jobs[j].pc # "panicking" => ~Alive
            /\ jobs[j].result = "none"

\* C11 happens: the process has ended on the network failure of one job while
\* another job was still in progress.
C11_Witness ==
    \E j, k \in DOMAIN jobs :
        /\ jobs[j].err = "doError" /\ jobs[j].pc = "panicked"
        /\ proc = "panic-upload"
        /\ k # j /\ InProgress(k)

\* The scan-launched jobs, in launch order.
ScanJobs == SelectSeq(jobs, LAMBDA r : ~r.wait)

\* processDir has returned to main.
ScanOver == mainPc \in {"watch", "loop"}

\* C12: the scan runs once and is over, every job it launched terminated,
\* before the watch subscription exists and the first event is queued or
\* received: once processDir has returned main never scans again and no
\* further scan job appears.
C12_ScanBeforeWatch ==
    [][/\ (watching' \/ chan' # <<>> \/ received' # <<>>) =>
              /\ ScanOver' /\ walk' = <<>>
              /\ \A j \in DOMAIN jobs' : ~jobs'[j].wait => jobs'[j].pc = "done"
       /\ ScanOver =>
              /\ ScanOver' /\ walk' = <<>>
              /\ ScanJobs' = ScanJobs]_vars

\* C12 happens: the scan has processed two entries, the watch is set and the
\* loop has received an event whose job is in progress.
C12_Witness ==
    /\ watching /\ received # <<>>
    /\ Len(ScanJobs) = 2
    /\ \E k \in DOMAIN jobs : jobs[k].wait /\ InProgress(k)

\* Path <<n>> was processed by the scan and has also been received as an event.
ScannedAndReceived(n) ==
    /\ \E j \in DOMAIN jobs : ~jobs[j].wait /\ jobs[j].path = <<n>>
    /\ \E k \in DOMAIN jobs : jobs[k].wait /\ jobs[k].path = <<n>>

\* A scan-launched and a watcher-launched job for <<n>> are in progress together.
Overlap(n) ==
    \E j, k \in DOMAIN jobs :
        /\ ~jobs[j].wait /\ jobs[k].wait
        /\ jobs[j].path = <<n>> /\ jobs[k].path = <<n>>
        /\ InProgress(j) /\ InProgress(k)

\* C13 as stated: when a path is present at the initial scan and also arrives
\* as a watch event, there is a state in which its scan-launched job and its
\* watcher-launched job are in progress at the same time.
C13_Original ==
    \A n \in Names : (<>ScannedAndReceived(n)) => (<>Overlap(n))

\* C13 amended: a scan-launched job and a watcher-launched job are never in
\* progress at the same time, for the same path or for different ones: when a
\* watcher-launched job exists every scan-launched job has returned.
C13_ScanAndWatcherJobsNeverOverlap ==
    \A j, k \in DOMAIN jobs :
        (~jobs[j].wait /\ jobs[k].wait) => jobs[j].pc = "done"

\* C13 happens: a path was processed by the scan, arrived again as an event,
\* and its watcher-launched job is in progress after the scan job has returned.
C13_Witness ==
    \E j, k \in DOMAIN jobs :
        /\ ~jobs[j].wait /\ jobs[k].wait
        /\ jobs[j].path = jobs[k].path
        /\ jobs[j].pc = "done" /\ InProgress(k)

\* C14: while the process runs, the receive loop takes the next queued event
\* whatever the jobs are doing: with an event in the channel the dispatch step
\* is enabled in every state, also when jobs are settling, transforming or
\* uploading.
C14_LoopNeverBlockedByJob ==
    (Alive /\ mainPc = "loop" /\ chan # <<>>) => ENABLED Dispatch

\* C14 happens: an event is queued for the loop while the job launched for the
\* event before it is in the middle of its upload.
C14_Witness ==
    /\ Alive /\ mainPc = "loop" /\ chan # <<>>
    /\ \E j \in DOMAIN jobs :
          /\ jobs[j].wait /\ jobs[j].pc = "uploading"
          /\ jobs[j].path = received[Len(received)]

\* C15 as stated: a walk error on one entry of the scan is logged and the walk
\* goes on: the process is never ended by the walk function.
C15_WalkErrorNotFatal ==
    proc # "panic-walk"

\* C16 as stated: with an OCR argument string that does not lex, no job invokes
\* the OCR executable, starts an upload or deletes its source, and every job
\* that ends is Failed.
C16_LexErrorFailsJob ==
    cfg.args = "lexError" =>
        \A j \in DOMAIN jobs :
            /\ jobs[j].ocr = "none"
            /\ jobs[j].pc \notin {"uploading", "uploaded"}
            /\ jobs[j].status = 0 /\ ~jobs[j].removedSrc
            /\ jobs[j].pc = "done" => jobs[j].result = "Failed"

\* What a step may not change of a job when it only records a new file.
JobFrame(r) == [r EXCEPT !.reappeared = FALSE]

\* C17: the event channel never holds more than ChanCap = 1 event.  A step in
\* which an event finds it full leaves the channel, the received events, the
\* jobs (their number, positions and results), the temporary directories and
\* the process as they are and removes no file; a watcher-launched job is
\* launched only by taking the head of the channel, so none is ever launched
\* for a dropped event: received and queued events together are at most the
\* arrivals that were not dropped.
C17_FullQueueDropsEvent ==
    [][/\ Len(chan') <= ChanCap
       /\ dropped' # dropped =>
            /\ Len(chan) = ChanCap /\ chan' = chan /\ received' = received
            /\ Len(jobs') = Len(jobs)
            /\ \A k \in DOMAIN jobs : JobFrame(jobs'[k]) = JobFrame(jobs[k])
            /\ tmp' = tmp /\ proc' = proc /\ mainPc' = mainPc
            /\ files \subseteq files' /\ sub' = sub
       /\ Len(WatcherJobs') > Len(WatcherJobs) =>
            /\ chan # <<>> /\ chan' = Tail(chan)
            /\ jobs'[Len(jobs')].path = Head(chan)
       /\ Len(received') + Len(chan') + dropped' <= arrivals']_vars

\* C17 happens: an event was dropped on the full channel, the event queued
\* before it has since been received, and no job exists but the one launched
\* for the received event.
C17_Witness ==
    /\ dropped = 1 /\ arrivals = 2
    /\ Len(received) = 1 /\ chan = <<>>
    /\ Len(WatcherJobs) = 1
    /\ files = {"a", "z"}

\* The OCR executable of job j exited 0 without writing the temporary output.
NoOutput(j) == jobs[j].ocr = "ok" /\ ~jobs[j].wrote

\* C18 as stated: a job whose OCR executable exited 0 and left no file at the
\* temporary output path never deletes its source file.
C18_NoOutputKeepsSource ==
    [][\A j \in DOMAIN jobs :
          NoOutput(j) =>
              /\ ~jobs'[j].removedSrc
              /\ (FileExists(jobs[j].path) /\ jobs'[j].pc # jobs[j].pc)
                    => FileExists(jobs[j].path)']_vars

\* The elements of a sequence.
Range(s) == {s[i] : i \in DOMAIN s}

\* A job has been launched on the path of file n of the watched directory.
HasJob(n) == \E j \in DOMAIN jobs : jobs[j].path = <<n>>

\* A job for file n is still to come: main has not listed the directory yet,
\* or the walk has n ahead of it, or an event for n is in the channel.
JobPending(n) ==
    \/ mainPc \in {"parse", "execute", "stat"}
    \/ mainPc = "scan" /\ (<<>> \in Range(walk) \/ <<n>> \in Range(walk))
    \/ <<n>> \in Range(chan)

\* C19 as stated, on finite runs: while the process runs and no event was
\* dropped, every file of the watched directory, there from the start or
\* written at any time since, has had a job launched for it or has one to
\* come (a file with neither never gets one unless it is written again).
C19_EveryFileGetsAJob ==
    (Alive /\ dropped = 0) =>
        \A n \in files : HasJob(n) \/ JobPending(n)

\* C20 as stated: of two watcher-launched jobs for the same path none deletes
\* the source file while the other is settling, transforming or uploading.
C20_NoRemovalUnderOtherJob ==
    [][\A j, k \in DOMAIN jobs :
          (/\ j # k /\ jobs[j].wait /\ jobs[k].wait
           /\ jobs[j].path = jobs[k].path
           /\ ~jobs[j].removedSrc /\ jobs'[j].removedSrc) =>
              jobs[k].pc \notin {"settling", "transforming", "uploading"}]_vars

====
